---- MODULE Spec2Model ----
(***************************************************************************)
(* Cart-to-order core of the marketplace API.                              *)
(*                                                                         *)
(* The store is the SQLite schema of the migration (cart, cart_item,       *)
(* order, order_item, product.price).  Every HTTP request runs in its own  *)
(* unit of work (RequestContext.create forks the EntityManager), so a      *)
(* request is a process whose local state is its identity map; its steps   *)
(* are the code between two awaits.  Each em.findOne is one read of the    *)
(* store and each em.flush() is one transaction of its own: the services   *)
(* open no transaction around a whole operation.                           *)
(***************************************************************************)
EXTENDS Integers, FiniteSets, Sequences, TLC

\* ------------------------------------------------------------------ bounds
MaxOps == 3             \* operations (requests, price changes) started in one behaviour
MaxClock == 3           \* ticks of the clock while sessions are held
CatalogSize == 120      \* rows of table product the search runs over

\* ----------------------------------------------------------------- domains
Users == {"u1", "u2"}   \* authenticated users (the identity collaborator supplies them)
Products == {1, 2}      \* ids of the products in the catalog; 0 is an id that resolves to none
Procs == {1, 2}         \* units of work that may be in flight together
Quantities == {1, 2}    \* quantities a request may carry
Prices == {1, 2}        \* prices a product may have (the column is an integer)
OrderIds == {1, 2}      \* order ids a request may name
Pages == {1, 2, 3}      \* pages of the order history a request may name
PageSizes == {1, 2}     \* page sizes of the order history a request may name
\* createOrder's options: no selectedItemIds, or a list of cart-line ids (maybe empty,
\* maybe naming ids that are no line of the user's cart)
Selections == [given : {FALSE}, ids : {{}}] \cup [given : {TRUE}, ids : SUBSET {1, 2}]

VARIABLES
    price,        \* product.price, by product id
    carts,        \* rows of table cart: [id, user]
    cartItems,    \* rows of table cart_item: [id, cart, product, quantity]
    orders,       \* rows of table order: [id, user, total, status, createdAt]
    orderItems,   \* rows of table order_item: [id, order, product, quantity, price], and
                  \* fromCartItem, history: the id of the cart line the row was made from
    nextId,       \* the autoincrement counter of each table
    reqs,         \* the unit of work in each slot: operation, arguments, position, identity map
    started,      \* number of operations started so far
    response,     \* the outcome of the request that completed last
    added,        \* history: quantity added by successful addToCart calls, by user and product
    signedIn,     \* the users who hold a session: authMiddleware lets only their requests in
    now,          \* the clock new Date() reads, in ticks
    users,        \* rows of table user: [id, email]
    sessions      \* rows of table session: [sessionId, user, expiresAt]

vars ==
    <<price, carts, cartItems, orders, orderItems, nextId, reqs, started, response, added,
      signedIn, now, users, sessions>>
auth == <<users, sessions>>
store == <<price, carts, cartItems, orders, orderItems, nextId>>

\* ------------------------------------------------------------ pure helpers
Min(S) == CHOOSE x \in S : \A y \in S : x <= y

\* OrderStatus.PENDING, the status createOrder assigns
PENDING == "pending"

\* calculateOrderTotal: the reduce over the loaded cart lines of quantity times the
\* price of the product as it was loaded with the line
RECURSIVE calculateOrderTotalOfPrices(_)
calculateOrderTotalOfPrices(items) ==
    IF items = {} THEN 0
    ELSE LET x == CHOOSE y \in items : TRUE
         IN x.price + calculateOrderTotalOfPrices(items \ {x})

RECURSIVE calculateOrderTotal(_)
calculateOrderTotal(items) ==
    IF items = {} THEN 0
    ELSE LET x == CHOOSE y \in items : TRUE
         IN x.quantity * x.price + calculateOrderTotal(items \ {x})

\* ------------------------------------------------------------- transport
\* the error objects of error.ts: AppError stores the code it is constructed with in
\* the field statusCode
AppErrors ==
    [CartNotFound |-> [class |-> "AppError", message |-> "Cart not found", statusCode |-> 404],
     ItemNotFoundInTheCart |->
         [class |-> "AppError", message |-> "Item not found in the cart", statusCode |-> 404],
     CartIsEmpty |-> [class |-> "AppError", message |-> "Cart is empty", statusCode |-> 400],
     OrderNotFound |-> [class |-> "AppError", message |-> "Order not found", statusCode |-> 400],
     ProductNotFound |->
         [class |-> "AppError", message |-> "Product not found", statusCode |-> 400],
     NoValidItemsSelected |->
         [class |-> "AppError", message |-> "No valid items selected", statusCode |-> 400],
     EmailConflict |->
         [class |-> "AppError",
          message |-> "A user with this email address already exists. Please use a different email.",
          statusCode |-> 409],
     InvalidCredential |->
         [class |-> "AppError", message |-> "Incorrect email or password", statusCode |-> 401],
     InvalidSession |->
         [class |-> "AppError", message |-> "Invalid session. Please sign in again.",
          statusCode |-> 401],
     ExpiredSession |->
         [class |-> "AppError", message |-> "Session has expired. Please sign in again.",
          statusCode |-> 401]]

\* what a rejected await throws: an Error that is no AppError
InternalError == [class |-> "Error", message |-> "internal"]

ErrorOf(res) == IF res \in DOMAIN AppErrors THEN AppErrors[res] ELSE InternalError

\* obj[name] in JavaScript: the value in a one-element sequence, or <<>> for undefined
Property(obj, name) == IF name \in DOMAIN obj THEN <<obj[name]>> ELSE <<>>

\* c.json(body, status): without a status the Response is built with the default, 200
json(body, status) ==
    [success |-> body.success, message |-> body.message,
     status |-> IF status = <<>> THEN 200 ELSE status[1]]

\* c.success(data)
success(data) == json([success |-> TRUE, message |-> <<>>], <<200>>)

\* app.onError: an HTTPException or AppError is answered with its message and with
\* err.status; anything else with 500 and no message (NODE_ENV is not development)
onError(err) ==
    IF err.class \in {"HTTPException", "AppError"}
    THEN json([success |-> FALSE, message |-> <<err.message>>], Property(err, "status"))
    ELSE json([success |-> FALSE, message |-> <<>>], <<500>>)

\* ----------------------------------------------------------------- queries
\* em.findOne(Cart, {user}): the row the user_id index yields first, the lowest id
FindCartIn(cartRows, u) ==
    LET ids == {c.id : c \in {x \in cartRows : x.user = u}}
    IN IF ids = {} THEN 0 ELSE Min(ids)
FindCart(u) == FindCartIn(carts, u)

\* populate ['items', 'items.product']: the lines of a cart, each with its product's
\* price as it is in the store at the time of the read
LoadItems(cartId) ==
    {[id |-> ci.id, cart |-> ci.cart, product |-> ci.product,
      quantity |-> ci.quantity, price |-> price[ci.product]] :
        ci \in {x \in cartItems : x.cart = cartId}}

\* getCartItems(user, em)
getCartItemsOfAnyCart(u) ==
    {[id |-> ci.id, cart |-> ci.cart, product |-> ci.product,
      quantity |-> ci.quantity, price |-> price[ci.product]] : ci \in cartItems}
getCartItems(u) == IF FindCart(u) = 0 THEN {} ELSE LoadItems(FindCart(u))

RECURSIVE SumQuantities(_)
SumQuantities(items) ==
    IF items = {} THEN 0
    ELSE LET x == CHOOSE y \in items : TRUE
         IN x.quantity + SumQuantities(items \ {x})

\* the view getCartWithItems returns of loaded lines: items with their subtotals,
\* total and itemCount
CartView(items) ==
    [items |-> {[id |-> it.id, quantity |-> it.quantity, product |-> it.product,
                 price |-> it.price, subtotal |-> it.quantity * it.price] : it \in items},
     total |-> calculateOrderTotal(items),
     itemCount |-> SumQuantities(items)]

\* em.findOne(Product, productId): 0 when there is none
FindProductAny(p) == IF p \in Products THEN p ELSE Min(Products)
FindProduct(p) == IF p \in Products THEN p ELSE 0

\* em.findOne(CartItem, {cart, product}): 0 when there is none
FindItem(cartId, p) ==
    LET hits == {ci.id : ci \in {x \in cartItems : x.cart = cartId /\ x.product = p}}
    IN IF hits = {} THEN 0 ELSE Min(hits)

ItemById(id) == CHOOSE ci \in cartItems : ci.id = id

\* ---------------------------------------------------------- units of work
IdleReq ==
    [op |-> "none", pc |-> "idle", user |-> "u1", product |-> 0, quantity |-> 0,
     sel |-> [given |-> FALSE, ids |-> {}], cart |-> 0, existing |-> 0, existingQty |-> 0,
     items |-> {}, order |-> 0, createdAt |-> 0, query |-> <<>>, account |-> 0,
     ret |-> "none"]

NoResponse ==
    [op |-> "none", user |-> "u1", selGiven |-> FALSE, result |-> "none", orderId |-> 0,
     query |-> <<>>, data |-> <<>>, http |-> success(<<>>)]

\* a request takes the first idle slot
Free(r) ==
    /\ reqs[r].pc = "idle"
    /\ \A r2 \in Procs : r2 < r => reqs[r2].pc # "idle"
    /\ started < MaxOps

Goto(r, rec) == reqs' = [reqs EXCEPT ![r] = rec]

\* the operation returns or throws: the identity map is dropped with the request,
\* and the handler answers with c.success or app.onError answers for it.  (The
\* handlers of addToCart, updateCartItem and removeFromCart read the cart again with
\* getCartWithItems before they answer; the cart exists by then, so that is a read.)
RespondWith(r, rq, res, data) ==
    /\ reqs' = [reqs EXCEPT ![r] = IdleReq]
    /\ response' = [op |-> rq.op, user |-> rq.user, selGiven |-> rq.sel.given,
                    result |-> res,
                    orderId |-> IF rq.op = "getOrderById" THEN rq.order ELSE 0,
                    query |-> rq.query,
                    data |-> data,
                    http |-> IF res = "ok" THEN success(data) ELSE onError(ErrorOf(res))]

Respond(r, rq, res) == RespondWith(r, rq, res, <<>>)

InitStore ==
    /\ price = [p \in Products |-> p]
    /\ carts = {}
    /\ cartItems = {}
    /\ orders = {}
    /\ orderItems = {}
    /\ nextId = [cart |-> 1, cartItem |-> 1, order |-> 1, orderItem |-> 1,
                 user |-> 1, session |-> 1]
    /\ reqs = [r \in Procs |-> IdleReq]
    /\ started = 0
    /\ response = NoResponse
    /\ added = [u \in Users |-> [p \in Products |-> 0]]
    /\ now = 0
    /\ users = {}
    /\ sessions = {}

\* one user is signed in and sends requests, several of them at a time
Init == InitStore /\ signedIn = {"u1"}

\* every user is signed in
InitAll == InitStore /\ signedIn = Users

\* ------------------------------------------------------------- addToCart
\* addToCart, to its first await: em.findOne(Product, productId)
AddToCartStart(r, u, p, q) ==
    /\ Free(r)
    /\ u \in signedIn
    /\ started' = started + 1
    /\ LET rq == [IdleReq EXCEPT !.op = "addToCart", !.pc = "goc_find", !.user = u,
                      !.product = FindProduct(p), !.quantity = q, !.ret = "add_findItem"]
       IN IF FindProduct(p) # 0
          THEN Goto(r, rq) /\ UNCHANGED response
          ELSE Respond(r, rq, "ProductNotFound")
    /\ UNCHANGED <<store, added, signedIn, now, auth>>

AddToCart(r) ==
    \E u \in Users, p \in Products \cup {0}, q \in Quantities : AddToCartStart(r, u, p, q)

\* getOrCreateCart: em.findOne(Cart, {user})
GetOrCreateCartFind(r) ==
    /\ reqs[r].pc = "goc_find"
    /\ LET c == FindCart(reqs[r].user)
       IN IF c # 0
          THEN IF reqs[r].ret = "done"
               THEN RespondWith(r, reqs[r], "ok", CartView({}))
               ELSE Goto(r, [reqs[r] EXCEPT !.cart = c, !.pc = reqs[r].ret])
                    /\ UNCHANGED response
          ELSE Goto(r, [reqs[r] EXCEPT !.pc = "goc_flush"]) /\ UNCHANGED response
    /\ UNCHANGED <<store, started, added, signedIn, now, auth>>

\* getOrCreateCart: em.persist(new Cart) and em.flush()
GetOrCreateCartFlush(r) ==
    /\ reqs[r].pc = "goc_flush"
    /\ carts' = carts \cup {[id |-> nextId.cart, user |-> reqs[r].user]}
    /\ nextId' = [nextId EXCEPT !.cart = @ + 1]
    /\ IF reqs[r].ret = "done"
       THEN RespondWith(r, reqs[r], "ok", CartView({}))
       ELSE Goto(r, [reqs[r] EXCEPT !.cart = nextId.cart, !.pc = reqs[r].ret])
            /\ UNCHANGED response
    /\ UNCHANGED <<price, cartItems, orders, orderItems, started, added, signedIn, now, auth>>

\* addToCart: em.findOne(CartItem, {cart, product}); an existing line is changed in
\* the identity map (quantity += quantity), a new one is only persisted at the flush
AddFindItem(r) ==
    /\ reqs[r].pc = "add_findItem"
    /\ LET e == FindItem(reqs[r].cart, reqs[r].product)
       IN Goto(r, [reqs[r] EXCEPT !.existing = e,
                       !.existingQty = IF e = 0 THEN 0 ELSE ItemById(e).quantity,
                       !.pc = "add_flush"])
    /\ UNCHANGED <<store, started, response, added, signedIn, now, auth>>

AddFlushRowsOverwrite(rq) ==
    IF rq.existing # 0
    THEN {IF ci.id = rq.existing THEN [ci EXCEPT !.quantity = rq.quantity] ELSE ci :
              ci \in cartItems}
    ELSE cartItems \cup {[id |-> nextId.cartItem, cart |-> rq.cart,
                          product |-> rq.product, quantity |-> rq.quantity]}

\* the rows of cart_item after addToCart's flush: UPDATE ... SET quantity = (loaded
\* quantity + quantity) WHERE id = existing, or INSERT of the new line
AddFlushRows(rq) ==
    IF rq.existing # 0
    THEN {IF ci.id = rq.existing
          THEN [ci EXCEPT !.quantity = rq.existingQty + rq.quantity]
          ELSE ci : ci \in cartItems}
    ELSE cartItems \cup {[id |-> nextId.cartItem, cart |-> rq.cart,
                          product |-> rq.product, quantity |-> rq.quantity]}

\* addToCart: the final em.flush()
AddFlush(r) ==
    /\ reqs[r].pc = "add_flush"
    /\ cartItems' = AddFlushRows(reqs[r])
    /\ nextId' = IF reqs[r].existing # 0 THEN nextId
                 ELSE [nextId EXCEPT !.cartItem = @ + 1]
    /\ added' = [added EXCEPT ![reqs[r].user][reqs[r].product] = @ + reqs[r].quantity]
    /\ Respond(r, reqs[r], "ok")
    /\ UNCHANGED <<price, carts, orders, orderItems, started, signedIn, now, auth>>

\* --------------------------------------------------------- updateCartItem
\* updateCartItem, to its second await: em.findOne(Cart, {user}), CartNotFoundError
\* without a cart
UpdateCartItemStart(r, u, p, q) ==
    /\ Free(r)
    /\ u \in signedIn
    /\ started' = started + 1
    /\ LET rq == [IdleReq EXCEPT !.op = "updateCartItem", !.user = u, !.product = p,
                      !.quantity = q]
       IN IF FindCart(u) = 0
          THEN Respond(r, rq, "CartNotFound")
          ELSE Goto(r, [rq EXCEPT !.cart = FindCart(u), !.pc = "upd_findItem"])
               /\ UNCHANGED response
    /\ UNCHANGED <<store, added, signedIn, now, auth>>

UpdateCartItem(r) ==
    \E u \in Users, p \in Products, q \in Quantities : UpdateCartItemStart(r, u, p, q)

\* updateCartItem: em.findOne(CartItem, {cart, product}), ItemNotFoundInTheCartError
\* without a line; the line found is changed in the identity map
UpdateFindItem(r) ==
    /\ reqs[r].pc = "upd_findItem"
    /\ LET e == FindItem(reqs[r].cart, reqs[r].product)
       IN IF e = 0
          THEN Respond(r, reqs[r], "ItemNotFoundInTheCart")
          ELSE Goto(r, [reqs[r] EXCEPT !.existing = e, !.existingQty = ItemById(e).quantity,
                            !.pc = "upd_flush"])
               /\ UNCHANGED response
    /\ UNCHANGED <<store, started, added, signedIn, now, auth>>

UpdateFlushRowsAdditive(rq) ==
    {IF ci.id = rq.existing THEN [ci EXCEPT !.quantity = ci.quantity + rq.quantity] ELSE ci :
         ci \in cartItems}

\* the rows of cart_item after updateCartItem's flush: UPDATE ... SET quantity =
\* the quantity given WHERE id = the line found
UpdateFlushRows(rq) ==
    {IF ci.id = rq.existing THEN [ci EXCEPT !.quantity = rq.quantity] ELSE ci :
         ci \in cartItems}

\* updateCartItem: em.flush()
UpdateFlush(r) ==
    /\ reqs[r].pc = "upd_flush"
    /\ cartItems' = UpdateFlushRows(reqs[r])
    /\ Respond(r, reqs[r], "ok")
    /\ UNCHANGED <<price, carts, orders, orderItems, nextId, started, added, signedIn, now, auth>>

\* --------------------------------------------------------- removeFromCart
\* removeFromCart, to its second await: em.findOne(Cart, {user}), CartNotFoundError
\* without a cart
RemoveFromCartStart(r, u, p) ==
    /\ Free(r)
    /\ u \in signedIn
    /\ started' = started + 1
    /\ LET rq == [IdleReq EXCEPT !.op = "removeFromCart", !.user = u, !.product = p]
       IN IF FindCart(u) = 0
          THEN Respond(r, rq, "CartNotFound")
          ELSE Goto(r, [rq EXCEPT !.cart = FindCart(u), !.pc = "rem_findItem"])
               /\ UNCHANGED response
    /\ UNCHANGED <<store, added, signedIn, now, auth>>

RemoveFromCart(r) == \E u \in Users, p \in Products : RemoveFromCartStart(r, u, p)

\* removeFromCart: em.findOne(CartItem, {cart, product}), ItemNotFoundInTheCartError
\* without a line
RemoveFindItem(r) ==
    /\ reqs[r].pc = "rem_findItem"
    /\ LET e == FindItem(reqs[r].cart, reqs[r].product)
       IN IF e = 0
          THEN Respond(r, reqs[r], "ItemNotFoundInTheCart")
          ELSE Goto(r, [reqs[r] EXCEPT !.existing = e, !.pc = "rem_flush"])
               /\ UNCHANGED response
    /\ UNCHANGED <<store, started, added, signedIn, now, auth>>

\* the rows of cart_item after removeFromCart's flush: DELETE ... WHERE id = the line
\* found
RemoveFlushRowsWholeCart(rq) == {ci \in cartItems : ci.cart # rq.cart}
RemoveFlushRows(rq) == {ci \in cartItems : ci.id # rq.existing}

\* removeFromCart: em.remove(cartItem) and em.flush()
RemoveFlush(r) ==
    /\ reqs[r].pc = "rem_flush"
    /\ cartItems' = RemoveFlushRows(reqs[r])
    /\ Respond(r, reqs[r], "ok")
    /\ UNCHANGED <<price, carts, orders, orderItems, nextId, started, added, signedIn, now, auth>>

\* ------------------------------------------------------- getCartWithItems
\* getCartWithItems: em.findOne(Cart, {user}, populate); without a cart it goes on
\* to getOrCreateCart
GetCartWithItemsStart(r, u) ==
    /\ Free(r)
    /\ u \in signedIn
    /\ started' = started + 1
    /\ LET rq == [IdleReq EXCEPT !.op = "getCartWithItems", !.pc = "goc_find",
                      !.user = u, !.ret = "done"]
       IN IF FindCart(u) # 0
          THEN RespondWith(r, rq, "ok", CartView(LoadItems(FindCart(u))))
          ELSE Goto(r, rq) /\ UNCHANGED response
    /\ UNCHANGED <<store, added, signedIn, now, auth>>

GetCartWithItems(r) == \E u \in Users : GetCartWithItemsStart(r, u)

\* ------------------------------------------------------------ createOrder
\* the working set: every loaded line, or those whose id the selection includes
\* (an empty selectedItemIds array is truthy and filters everything out)
ItemsToOrderAll(items, sel) == items
ItemsToOrderEmptyMeansAll(items, sel) ==
    IF sel.given /\ sel.ids # {} THEN {it \in items : it.id \in sel.ids} ELSE items
ItemsToOrder(items, sel) ==
    IF sel.given THEN {it \in items : it.id \in sel.ids} ELSE items

\* the two checks of createOrder, in the order the code makes them
CreateOrderCheckSelectionFirst(loaded, sel) ==
    IF sel.given /\ ItemsToOrder(loaded, sel) = {} THEN "NoValidItemsSelected"
    ELSE IF loaded = {} THEN "CartIsEmpty"
    ELSE "ok"
CreateOrderCheck(loaded, sel) ==
    IF loaded = {} THEN "CartIsEmpty"
    ELSE IF ItemsToOrder(loaded, sel) = {} THEN "NoValidItemsSelected"
    ELSE "ok"

\* createOrder, to its first flush: getCartItems, the two checks, the working set,
\* and new Order(), whose createdAt is new Date()
CreateOrderStart(r, u, sel) ==
    /\ Free(r)
    /\ u \in signedIn
    /\ started' = started + 1
    /\ LET loaded == getCartItems(u)
           rq == [IdleReq EXCEPT !.op = "createOrder", !.user = u, !.sel = sel]
       IN IF CreateOrderCheck(loaded, sel) # "ok"
          THEN Respond(r, rq, CreateOrderCheck(loaded, sel))
          ELSE Goto(r, [rq EXCEPT !.pc = "co_flush", !.items = ItemsToOrder(loaded, sel),
                            !.createdAt = now])
               /\ UNCHANGED response
    /\ UNCHANGED <<store, added, signedIn, now, auth>>

CreateOrder(r) == \E u \in Users, sel \in Selections : CreateOrderStart(r, u, sel)

\* the order_item rows createOrder persists for order o: one per working-set line,
\* quantity and price copied from the line and its product as loaded
RECURSIVE NewOrderItemsRereadPrice(_, _, _)
NewOrderItemsRereadPrice(items, o, firstId) ==
    IF items = {} THEN {}
    ELSE LET it == CHOOSE x \in items : \A y \in items : x.id <= y.id
         IN {[id |-> firstId, order |-> o, product |-> it.product,
              quantity |-> it.quantity, price |-> price[it.product], fromCartItem |-> it.id]}
            \cup NewOrderItemsRereadPrice(items \ {it}, o, firstId + 1)

RECURSIVE NewOrderItemsIntoFirstOrder(_, _, _)
NewOrderItemsIntoFirstOrder(items, o, firstId) ==
    IF items = {} THEN {}
    ELSE LET it == CHOOSE x \in items : \A y \in items : x.id <= y.id
         IN {[id |-> firstId, order |-> 1, product |-> it.product,
              quantity |-> it.quantity, price |-> it.price, fromCartItem |-> it.id]}
            \cup NewOrderItemsIntoFirstOrder(items \ {it}, o, firstId + 1)

RECURSIVE NewOrderItems(_, _, _)
NewOrderItems(items, o, firstId) ==
    IF items = {} THEN {}
    ELSE LET it == CHOOSE x \in items : \A y \in items : x.id <= y.id
         IN {[id |-> firstId, order |-> o, product |-> it.product,
              quantity |-> it.quantity, price |-> it.price, fromCartItem |-> it.id]}
            \cup NewOrderItems(items \ {it}, o, firstId + 1)

\* createOrder: em.flush() of the order and its order items, one transaction
CreateOrderFlush(r) ==
    /\ reqs[r].pc = "co_flush"
    /\ orders' = orders \cup {[id |-> nextId.order, user |-> reqs[r].user,
                               total |-> calculateOrderTotal(reqs[r].items),
                               status |-> PENDING, createdAt |-> reqs[r].createdAt]}
    /\ orderItems' = orderItems \cup NewOrderItems(reqs[r].items, nextId.order, nextId.orderItem)
    /\ nextId' = [nextId EXCEPT !.order = @ + 1,
                                !.orderItem = @ + Cardinality(reqs[r].items)]
    /\ Goto(r, [reqs[r] EXCEPT !.order = nextId.order,
                    !.pc = IF reqs[r].sel.given THEN "co_removeFlush" ELSE "clear_find"])
    /\ UNCHANGED <<price, carts, cartItems, started, response, added, signedIn, now, auth>>

\* em.remove of each given line and em.flush(): DELETE FROM cart_item WHERE id IN (...)
RemoveNothing(rows, items) == rows
RemoveLowestItem(rows, items) ==
    {ci \in rows : items = {} \/ ci.id # Min({it.id : it \in items})}
RemoveItems(rows, items) == {ci \in rows : ci.id \notin {it.id : it \in items}}

\* createOrder with a selection: em.remove of every working-set line, em.flush()
CreateOrderRemoveFlush(r) ==
    /\ reqs[r].pc = "co_removeFlush"
    /\ cartItems' = RemoveItems(cartItems, reqs[r].items)
    /\ Respond(r, reqs[r], "ok")
    /\ UNCHANGED <<price, carts, orders, orderItems, nextId, started, added, signedIn, now, auth>>

\* clearCart: em.findOne(Cart, {user}, {populate: ['items']}) queries the store again
\* (the condition is no primary key), so the lines it removes are those the cart has
\* now, not those createOrder loaded; without a cart it returns
ClearCartFind(r) ==
    /\ reqs[r].pc = "clear_find"
    /\ IF FindCart(reqs[r].user) = 0
       THEN Respond(r, reqs[r], "ok")
       ELSE Goto(r, [reqs[r] EXCEPT !.items = LoadItems(FindCart(reqs[r].user)),
                         !.pc = "clear_flush"])
            /\ UNCHANGED response
    /\ UNCHANGED <<store, started, added, signedIn, now, auth>>

\* clearCart called by its own route: the same first step
ClearCartStart(r, u) ==
    /\ Free(r)
    /\ u \in signedIn
    /\ started' = started + 1
    /\ LET rq == [IdleReq EXCEPT !.op = "clearCart", !.user = u]
       IN IF FindCart(u) = 0
          THEN Respond(r, rq, "ok")
          ELSE Goto(r, [rq EXCEPT !.cart = FindCart(u), !.items = LoadItems(FindCart(u)),
                            !.pc = "clear_flush"])
               /\ UNCHANGED response
    /\ UNCHANGED <<store, added, signedIn, now, auth>>

ClearCart(r) == \E u \in Users : ClearCartStart(r, u)

\* clearCart: em.remove of every loaded line, em.flush()
ClearCartFlush(r) ==
    /\ reqs[r].pc = "clear_flush"
    /\ cartItems' = RemoveItems(cartItems, reqs[r].items)
    /\ Respond(r, reqs[r], "ok")
    /\ UNCHANGED <<price, carts, orders, orderItems, nextId, started, added, signedIn, now, auth>>

\* ----------------------------------------------------------- order queries
\* the lines of an order, as populate ['items'] loads them
OrderLinesIn(itemRows, o) == {oi \in itemRows : oi.order = o}
OrderLines(o) == OrderLinesIn(orderItems, o)

\* the view both queries build of a loaded order: price and subtotal are read from
\* the order line
OrderViewCurrentPrice(o) ==
    [id |-> o.id, total |-> o.total, status |-> o.status, createdAt |-> o.createdAt,
     items |-> {[id |-> oi.id, quantity |-> oi.quantity, price |-> price[oi.product],
                 product |-> oi.product, subtotal |-> oi.quantity * price[oi.product]] :
                    oi \in OrderLines(o.id)}]
OrderView(o) ==
    [id |-> o.id, total |-> o.total, status |-> o.status, createdAt |-> o.createdAt,
     items |-> {[id |-> oi.id, quantity |-> oi.quantity, price |-> oi.price,
                 product |-> oi.product, subtotal |-> oi.quantity * oi.price] :
                    oi \in OrderLines(o.id)}]

\* getOrderById: em.findOne(Order, {id, user}), OrderNotFoundError without a row
getOrderByIdAnyOwner(orderId, u) ==
    LET hits == {o \in orders : o.id = orderId}
    IN IF hits = {} THEN [error |-> "OrderNotFound"]
       ELSE [order |-> OrderView(CHOOSE o \in hits : TRUE)]
getOrderById(orderId, u) ==
    LET hits == {o \in orders : o.id = orderId /\ o.user = u}
    IN IF hits = {} THEN [error |-> "OrderNotFound"]
       ELSE [order |-> OrderView(CHOOSE o \in hits : TRUE)]

\* GET /orders/:id: getOrderById is one read; the handler answers with the order
GetOrderByIdStart(r, u, orderId) ==
    /\ Free(r)
    /\ u \in signedIn
    /\ started' = started + 1
    /\ LET rq == [IdleReq EXCEPT !.op = "getOrderById", !.user = u, !.order = orderId]
           out == getOrderById(orderId, u)
       IN IF "error" \in DOMAIN out
          THEN Respond(r, rq, out.error)
          ELSE RespondWith(r, rq, "ok", out.order)
    /\ UNCHANGED <<store, added, signedIn, now, auth>>

GetOrderById(r) == \E u \in Users, orderId \in OrderIds : GetOrderByIdStart(r, u, orderId)

\* em.find(Order, {user}, {orderBy: {createdAt: 'DESC'}}): the user's orders by
\* createdAt, latest first; the statement gives no second key, so orders with
\* the same createdAt come in whatever order the store yields them
Histories(u) ==
    LET os == {o \in orders : o.user = u}
        n == Cardinality(os)
    IN {s \in [1..n -> os] :
            /\ \A i \in 1..n : \A j \in 1..n : i # j => s[i] # s[j]
            /\ \A i \in 1..n : \A j \in 1..n : i < j => s[i].createdAt >= s[j].createdAt}

\* Math.ceil(total / pageSize)
CeilDivFloor(a, b) == a \div b
CeilDiv(a, b) == (a + b - 1) \div b

\* getOrderHistory, given the list `all` the store yields for the user: the rows
\* from offset (page - 1) * pageSize, at most pageSize of them, and the count
getOrderHistory(u, page, pageSize, all) ==
    LET offset == (page - 1) * pageSize
        last == IF offset + pageSize < Len(all) THEN offset + pageSize ELSE Len(all)
        rows == SubSeq(all, offset + 1, last)
    IN [orders |-> [i \in 1..Len(rows) |-> OrderView(rows[i])],
        total |-> Len(all), page |-> page, totalPages |-> CeilDiv(Len(all), pageSize)]

\* GET /orders: getOrderHistory is one read (find and count are issued together)
GetOrderHistoryStart(r, u, page, pageSize) ==
    /\ Free(r)
    /\ u \in signedIn
    /\ started' = started + 1
    /\ \E all \in Histories(u) :
          RespondWith(r, [IdleReq EXCEPT !.op = "getOrderHistory", !.user = u], "ok",
                      getOrderHistory(u, page, pageSize, all))
    /\ UNCHANGED <<store, added, signedIn, now, auth>>

GetOrderHistory(r) ==
    \E u \in Users, page \in Pages, pageSize \in PageSizes :
        GetOrderHistoryStart(r, u, page, pageSize)

\* --------------------------------------------------------- product search
\* a query parameter is <<>> when the request has none, else <<n>> for the digits n
PageParams == {<<>>, <<0>>, <<1>>, <<2>>}
PageSizeParams == {<<>>, <<0>>, <<1>>, <<2>>, <<150>>}
PriceParams == {<<>>} \cup {<<v>> : v \in Prices}

DefaultPageSize == 20   \* filters.pageSize || 20
MaxPageSize == 100      \* Math.min(parseInt(val, 10), 100)

\* table product: the rows Products, which carts refer to, and further rows up to
\* CatalogSize, whose prices alternate
priceOfRow(p) == IF p \in Products THEN price[p] ELSE 1 + (p % 2)

\* the rows by the default sort, newest first (rows are seeded in id order)
newest == [i \in 1..CatalogSize |-> CatalogSize + 1 - i]

\* the query validator of GET /products: page becomes parseInt(val, 10), pageSize
\* becomes Math.min(parseInt(val, 10), 100); both stay undefined without a value
validatePage(val) == val
validatePageSizeUncapped(val) == val
validatePageSize(val) ==
    IF val = <<>> THEN <<>> ELSE <<IF val[1] < MaxPageSize THEN val[1] ELSE MaxPageSize>>

\* filterProducts: the price bounds (search and categoryId select on columns that
\* are not part of this model)
filterProducts(filters, p) ==
    /\ filters.minPrice = <<>> \/ priceOfRow(p) >= filters.minPrice[1]
    /\ filters.maxPrice = <<>> \/ priceOfRow(p) <= filters.maxPrice[1]

\* x || d in JavaScript, for a number or undefined
OrElse(x, d) == IF x = <<>> \/ x[1] = 0 THEN d ELSE x[1]

\* searchProducts: findWithFilters (find with limit and offset, and count), then
\* the page's metadata
searchProducts(filters) ==
    LET page == OrElse(filters.page, 1)
        pageSize == OrElse(filters.pageSize, DefaultPageSize)
        offset == (page - 1) * pageSize
        matching(p) == filterProducts(filters, p)
        all == SelectSeq(newest, matching)
        last == IF offset + pageSize < Len(all) THEN offset + pageSize ELSE Len(all)
    IN [products |-> SubSeq(all, offset + 1, last),
        total |-> Len(all),
        page |-> page,
        totalPages |-> CeilDiv(Len(all), pageSize)]

\* GET /products: the validator, then searchProducts, one read
SearchProductsStart(r, pageParam, pageSizeParam, minPrice, maxPrice) ==
    /\ Free(r)
    /\ started' = started + 1
    /\ RespondWith(r, [IdleReq EXCEPT !.op = "searchProducts",
                                      !.query = [page |-> pageParam,
                                                 pageSize |-> pageSizeParam,
                                                 minPrice |-> minPrice,
                                                 maxPrice |-> maxPrice]], "ok",
                   searchProducts([page |-> validatePage(pageParam),
                                   pageSize |-> validatePageSize(pageSizeParam),
                                   minPrice |-> minPrice, maxPrice |-> maxPrice]))
    /\ UNCHANGED <<store, added, signedIn, now, auth>>

SearchProducts(r) ==
    \E pageParam \in PageParams, pageSizeParam \in PageSizeParams,
       minPrice \in PriceParams, maxPrice \in PriceParams :
        SearchProductsStart(r, pageParam, pageSizeParam, minPrice, maxPrice)

\* ----------------------------------------------------- accounts and sessions
Emails == {"a", "c"}    \* emails a request may carry
SessionIds == 0..3      \* session ids a request may present; 0 is never issued

SessionTTL == 2         \* 7 * 24 * 60 * 60 * 1000 ms, in ticks of half that

\* the unique index user_email_unique lets the insert of a user row through
emailIsFreeAlways(email) == TRUE
emailIsFree(email) == \A u \in users : u.email # email

\* createSession: a fresh random id, expiry seven days from now
createSession(user) ==
    [sessionId |-> nextId.session, user |-> user, expiresAt |-> now + SessionTTL]

SessionRows(sid) == {x \in sessions : x.sessionId = sid}

\* populate: ['user']
userOf(session) == CHOOSE u \in users : u.id = session.user

\* register: em.transactional opens the transaction and the password is hashed
RegisterStart(r, email) ==
    /\ Free(r)
    /\ started' = started + 1
    /\ Goto(r, [IdleReq EXCEPT !.op = "register", !.pc = "registerFlush",
                               !.query = [email |-> email]])
    /\ UNCHANGED <<store, response, added, signedIn, now, auth>>

Register(r) == \E email \in Emails : RegisterStart(r, email)

\* the flush in createSession and the commit: the user row and the session row are
\* inserted together, or the unique index rejects the user row, the transaction
\* rolls back and the ConstraintViolationException becomes EmailConflictError
RegisterFlush(r) ==
    /\ reqs[r].pc = "registerFlush"
    /\ IF emailIsFree(reqs[r].query.email)
       THEN /\ users' = users \cup {[id |-> nextId.user, email |-> reqs[r].query.email]}
            /\ sessions' = sessions \cup {createSession(nextId.user)}
            /\ nextId' = [nextId EXCEPT !.user = @ + 1, !.session = @ + 1]
            /\ RespondWith(r, reqs[r], "ok",
                           [user |-> nextId.user, sessionId |-> nextId.session])
       ELSE /\ Respond(r, reqs[r], "EmailConflict")
            /\ UNCHANGED <<nextId, auth>>
    /\ UNCHANGED <<price, carts, cartItems, orders, orderItems, started, added, signedIn, now>>

\* login: em.findOne(User, {email})
LoginStart(r, email, passwordOk) ==
    /\ Free(r)
    /\ started' = started + 1
    /\ LET rq == [IdleReq EXCEPT !.op = "login",
                                 !.query = [email |-> email, passwordOk |-> passwordOk]]
           found == {u \in users : u.email = email}
       IN IF found = {}
          THEN Respond(r, rq, "InvalidCredential")
          ELSE /\ Goto(r, [rq EXCEPT !.pc = "loginFlush",
                                     !.account = (CHOOSE u \in found : TRUE).id])
               /\ UNCHANGED response
    /\ UNCHANGED <<store, added, signedIn, now, auth>>

Login(r) == \E email \in Emails, passwordOk \in BOOLEAN : LoginStart(r, email, passwordOk)

\* the password is verified, then createSession flushes the session row
LoginFlush(r) ==
    /\ reqs[r].pc = "loginFlush"
    /\ IF reqs[r].query.passwordOk
       THEN /\ sessions' = sessions \cup {createSession(reqs[r].account)}
            /\ nextId' = [nextId EXCEPT !.session = @ + 1]
            /\ RespondWith(r, reqs[r], "ok",
                           [user |-> reqs[r].account, sessionId |-> nextId.session])
       ELSE /\ Respond(r, reqs[r], "InvalidCredential")
            /\ UNCHANGED <<nextId, sessions>>
    /\ UNCHANGED <<price, carts, cartItems, orders, orderItems, started, added, signedIn, now,
                   users>>

\* validateSession, called on its own (op "validateSession") or by authMiddleware
\* ahead of the logout handler (op "logout"): em.findOne(Session, {sessionId}) and
\* the comparison of expiresAt with new Date()
ValidateSessionStart(r, sid, op) ==
    /\ Free(r)
    /\ started' = started + 1
    /\ LET rq == [IdleReq EXCEPT !.op = op, !.query = [sessionId |-> sid]]
           found == SessionRows(sid)
           session == CHOOSE x \in found : TRUE
       IN IF found = {}
          THEN Respond(r, rq, "InvalidSession")
          ELSE IF session.expiresAt < now
          THEN Goto(r, [rq EXCEPT !.pc = "deleteBySessionId"]) /\ UNCHANGED response
          ELSE IF op = "validateSession"
          THEN RespondWith(r, rq, "ok", userOf(session))
          ELSE /\ Goto(r, [rq EXCEPT !.pc = "deleteSessionsFind", !.account = session.user])
               /\ UNCHANGED response
    /\ UNCHANGED <<store, added, signedIn, now, auth>>

ValidateSession(r) == \E sid \in SessionIds : ValidateSessionStart(r, sid, "validateSession")

\* DELETE auth/users/session
Logout(r) == \E sid \in SessionIds : ValidateSessionStart(r, sid, "logout")

\* deleteBySessionId: em.findOne(Session, {sessionId}); without a row it returns and
\* validateSession throws ExpiredSessionError
DeleteBySessionIdFind(r) ==
    /\ reqs[r].pc = "deleteBySessionId"
    /\ IF SessionRows(reqs[r].query.sessionId) = {}
       THEN Respond(r, reqs[r], "ExpiredSession")
       ELSE Goto(r, [reqs[r] EXCEPT !.pc = "deleteBySessionIdFlush"]) /\ UNCHANGED response
    /\ UNCHANGED <<store, started, added, signedIn, now, auth>>

\* em.removeAndFlush(session)
deleteBySessionIdRowsKept(sid) == sessions
deleteBySessionIdRows(sid) == sessions \ SessionRows(sid)

DeleteBySessionIdFlush(r) ==
    /\ reqs[r].pc = "deleteBySessionIdFlush"
    /\ sessions' = deleteBySessionIdRows(reqs[r].query.sessionId)
    /\ Respond(r, reqs[r], "ExpiredSession")
    /\ UNCHANGED <<store, started, added, signedIn, now, users>>

\* deleteSessionsByUser: em.find(Session, {user})
DeleteSessionsFind(r) ==
    /\ reqs[r].pc = "deleteSessionsFind"
    /\ Goto(r, [reqs[r] EXCEPT !.pc = "deleteSessionsFlush",
                               !.items = {x \in sessions : x.user = reqs[r].account}])
    /\ UNCHANGED <<store, started, response, added, signedIn, now, auth>>

\* em.removeAndFlush(sessions): the rows that were loaded are deleted
deleteSessionsRowsOfAnyUser(loaded) == IF loaded = {} THEN sessions ELSE {}
deleteSessionsRows(loaded) == {x \in sessions : \A l \in loaded : l.sessionId # x.sessionId}

DeleteSessionsFlush(r) ==
    /\ reqs[r].pc = "deleteSessionsFlush"
    /\ sessions' = deleteSessionsRows(reqs[r].items)
    /\ Respond(r, reqs[r], "ok")
    /\ UNCHANGED <<store, started, added, signedIn, now, users>>

\* time passes while sessions are held
Elapse ==
    /\ sessions # {}
    /\ now < MaxClock
    /\ now' = now + 1
    /\ UNCHANGED <<store, reqs, started, response, added, signedIn, auth>>

\* ------------------------------------------------------------ environment
\* a product's price is changed in the catalog (the column the cart and order
\* code reads through item.product.price)
ChangePrice ==
    \E p \in Products, v \in Prices :
        /\ v # price[p]
        /\ started < MaxOps
        /\ started' = started + 1
        /\ price' = [price EXCEPT ![p] = v]
        /\ UNCHANGED <<carts, cartItems, orders, orderItems, nextId, reqs, response, added, signedIn, now, auth>>

\* time passes: the clock moves on once some order carries its current reading
\* (a tick before that shows in no state)
Tick ==
    /\ \/ \E o \in orders : o.createdAt = now
       \/ \E r \in Procs : reqs[r].pc # "idle" /\ reqs[r].op = "createOrder"
                             /\ reqs[r].createdAt = now
    /\ now' = now + 1
    /\ UNCHANGED <<store, reqs, started, response, added, signedIn, auth>>

\* an await rejects with an infrastructure error: the operation stops where it is,
\* what its earlier flushes committed stays, and the transport answers 500
Fail(r) ==
    /\ reqs[r].pc # "idle"
    /\ Respond(r, reqs[r], "InternalError")
    /\ UNCHANGED <<store, started, added, signedIn, now, auth>>

\* ---------------------------------------------------------- specifications
Step(r) ==
    \/ AddToCart(r)
    \/ GetOrCreateCartFind(r)
    \/ GetOrCreateCartFlush(r)
    \/ AddFindItem(r)
    \/ AddFlush(r)
    \/ UpdateCartItem(r)
    \/ UpdateFindItem(r)
    \/ UpdateFlush(r)
    \/ RemoveFromCart(r)
    \/ RemoveFindItem(r)
    \/ RemoveFlush(r)
    \/ ClearCart(r)
    \/ GetCartWithItems(r)
    \/ GetOrderById(r)
    \/ CreateOrder(r)
    \/ CreateOrderFlush(r)
    \/ CreateOrderRemoveFlush(r)
    \/ ClearCartFind(r)
    \/ ClearCartFlush(r)
    \/ Fail(r)

Next == (\E r \in Procs : Step(r)) \/ ChangePrice

\* the requests of one user interleave at their awaits
Spec == Init /\ [][Next]_vars

\* the cart and order mutations of all users interleave at their awaits
MutationStep(r) ==
    \/ AddToCart(r)
    \/ GetOrCreateCartFind(r)
    \/ GetOrCreateCartFlush(r)
    \/ AddFindItem(r)
    \/ AddFlush(r)
    \/ UpdateCartItem(r)
    \/ UpdateFindItem(r)
    \/ UpdateFlush(r)
    \/ RemoveFromCart(r)
    \/ RemoveFindItem(r)
    \/ RemoveFlush(r)
    \/ ClearCart(r)
    \/ CreateOrder(r)
    \/ CreateOrderFlush(r)
    \/ CreateOrderRemoveFlush(r)
    \/ ClearCartFind(r)
    \/ ClearCartFlush(r)

MutationNext == \E r \in Procs : MutationStep(r)

MutationSpec == InitAll /\ [][MutationNext]_vars

NoneInFlight == \A r \in Procs : reqs[r].pc = "idle"

\* every user sends requests, one request at a time: a request starts only when no
\* other is in flight
SeqNext ==
    \/ \E r \in Procs : NoneInFlight /\ AddToCart(r)
    \/ \E r \in Procs : NoneInFlight /\ UpdateCartItem(r)
    \/ \E r \in Procs : NoneInFlight /\ RemoveFromCart(r)
    \/ \E r \in Procs : NoneInFlight /\ ClearCart(r)
    \/ \E r \in Procs : NoneInFlight /\ GetCartWithItems(r)
    \/ \E r \in Procs : NoneInFlight /\ GetOrderById(r)
    \/ \E r \in Procs : NoneInFlight /\ CreateOrder(r)
    \/ \E r \in Procs : GetOrCreateCartFind(r)
    \/ \E r \in Procs : GetOrCreateCartFlush(r)
    \/ \E r \in Procs : AddFindItem(r)
    \/ \E r \in Procs : AddFlush(r)
    \/ \E r \in Procs : UpdateFindItem(r)
    \/ \E r \in Procs : UpdateFlush(r)
    \/ \E r \in Procs : RemoveFindItem(r)
    \/ \E r \in Procs : RemoveFlush(r)
    \/ \E r \in Procs : CreateOrderFlush(r)
    \/ \E r \in Procs : CreateOrderRemoveFlush(r)
    \/ \E r \in Procs : ClearCartFind(r)
    \/ \E r \in Procs : ClearCartFlush(r)
    \/ \E r \in Procs : Fail(r)
    \/ ChangePrice

SeqSpec == InitAll /\ [][SeqNext]_vars

\* every user sends requests, one at a time, and every request is an addToCart
AddNext ==
    \/ \E r \in Procs : NoneInFlight /\ AddToCart(r)
    \/ \E r \in Procs : GetOrCreateCartFind(r)
    \/ \E r \in Procs : GetOrCreateCartFlush(r)
    \/ \E r \in Procs : AddFindItem(r)
    \/ \E r \in Procs : AddFlush(r)
    \/ \E r \in Procs : Fail(r)

AddSpec == InitAll /\ [][AddNext]_vars

\* the order history: both users have a cart with lines (one line per product for
\* u1, one line for u2, of any quantity), check out one request at a time, and
\* read their order history; the clock may or may not move between two checkouts
HistoryStore ==
    /\ price = [p \in Products |-> p]
    /\ carts = {[id |-> 1, user |-> "u1"], [id |-> 2, user |-> "u2"]}
    /\ \E q1 \in Quantities, q2 \in Quantities, q3 \in Quantities :
          /\ cartItems = {[id |-> 1, cart |-> 1, product |-> 1, quantity |-> q1],
                          [id |-> 2, cart |-> 1, product |-> 2, quantity |-> q2],
                          [id |-> 3, cart |-> 2, product |-> 1, quantity |-> q3]}
          /\ added = [u \in Users |->
                         IF u = "u1" THEN [p \in Products |-> IF p = 1 THEN q1 ELSE q2]
                         ELSE [p \in Products |-> IF p = 1 THEN q3 ELSE 0]]
    /\ orders = {}
    /\ orderItems = {}
    /\ nextId = [cart |-> 3, cartItem |-> 4, order |-> 1, orderItem |-> 1,
                 user |-> 1, session |-> 1]
    /\ reqs = [r \in Procs |-> IdleReq]
    /\ started = 0
    /\ response = NoResponse
    /\ now = 0
    /\ users = {}
    /\ sessions = {}
    /\ signedIn = Users

HistoryNext ==
    \/ \E r \in Procs : NoneInFlight /\ CreateOrder(r)
    \/ \E r \in Procs : NoneInFlight /\ GetOrderHistory(r)
    \/ \E r \in Procs : CreateOrderFlush(r)
    \/ \E r \in Procs : CreateOrderRemoveFlush(r)
    \/ \E r \in Procs : ClearCartFind(r)
    \/ \E r \in Procs : ClearCartFlush(r)
    \/ Tick

HistorySpec == HistoryStore /\ [][HistoryNext]_vars

\* calculateOrderTotal applied to the lines of a cart: u1's cart holds up to three
\* lines of any product and of quantity 0, 1 or 2, at any prices
TotalStore ==
    /\ price \in [Products -> Prices]
    /\ carts = {[id |-> 1, user |-> "u1"]}
    /\ \E n \in 0..3 : \E ps \in [1..n -> Products] : \E qs \in [1..n -> 0..2] :
          /\ cartItems = {[id |-> i, cart |-> 1, product |-> ps[i], quantity |-> qs[i]] :
                              i \in 1..n}
          /\ nextId = [cart |-> 2, cartItem |-> n + 1, order |-> 1, orderItem |-> 1,
                 user |-> 1, session |-> 1]
    /\ orders = {}
    /\ orderItems = {}
    /\ reqs = [r \in Procs |-> IdleReq]
    /\ started = 0
    /\ response = NoResponse
    /\ added = [u \in Users |-> [p \in Products |-> 0]]
    /\ now = 0
    /\ users = {}
    /\ sessions = {}
    /\ signedIn = {"u1"}

\* calculateOrderTotal(cartItems) on the lines getCartItems loads
CalculateOrderTotal(r) ==
    \E u \in signedIn :
        /\ Free(r)
        /\ started' = started + 1
        /\ RespondWith(r, [IdleReq EXCEPT !.op = "calculateOrderTotal", !.user = u], "ok",
                       calculateOrderTotal(getCartItems(u)))
        /\ UNCHANGED <<store, added, signedIn, now, auth>>

TotalNext == \E r \in Procs : CalculateOrderTotal(r)

TotalSpec == TotalStore /\ [][TotalNext]_vars

\* the addToCart requests of one user interleave at their awaits
AddRaceNext ==
    \/ \E r \in Procs : AddToCart(r)
    \/ \E r \in Procs : GetOrCreateCartFind(r)
    \/ \E r \in Procs : GetOrCreateCartFlush(r)
    \/ \E r \in Procs : AddFindItem(r)
    \/ \E r \in Procs : AddFlush(r)

AddRaceSpec == Init /\ [][AddRaceNext]_vars

\* the catalog, at any prices, is searched
ProductStore ==
    /\ price \in [Products -> Prices]
    /\ carts = {}
    /\ cartItems = {}
    /\ orders = {}
    /\ orderItems = {}
    /\ nextId = [cart |-> 1, cartItem |-> 1, order |-> 1, orderItem |-> 1,
                 user |-> 1, session |-> 1]
    /\ reqs = [r \in Procs |-> IdleReq]
    /\ started = 0
    /\ response = NoResponse
    /\ added = [u \in Users |-> [p \in Products |-> 0]]
    /\ signedIn = {}
    /\ now = 0
    /\ users = {}
    /\ sessions = {}

ProductNext == \E r \in Procs : SearchProducts(r)

ProductSpec == ProductStore /\ [][ProductNext]_vars

\* two users are registered and hold three sessions issued at time 0
AuthStore ==
    /\ price = [p \in Products |-> p]
    /\ carts = {}
    /\ cartItems = {}
    /\ orders = {}
    /\ orderItems = {}
    /\ nextId = [cart |-> 1, cartItem |-> 1, order |-> 1, orderItem |-> 1,
                 user |-> 3, session |-> 4]
    /\ reqs = [r \in Procs |-> IdleReq]
    /\ started = 0
    /\ response = NoResponse
    /\ added = [u \in Users |-> [p \in Products |-> 0]]
    /\ signedIn = {}
    /\ now = 0
    /\ users = {[id |-> 1, email |-> "a"], [id |-> 2, email |-> "b"]}
    /\ sessions = {[sessionId |-> 1, user |-> 1, expiresAt |-> SessionTTL],
                   [sessionId |-> 2, user |-> 1, expiresAt |-> SessionTTL],
                   [sessionId |-> 3, user |-> 2, expiresAt |-> SessionTTL]}

AuthStep(r) ==
    \/ RegisterFlush(r)
    \/ LoginFlush(r)
    \/ DeleteBySessionIdFind(r)
    \/ DeleteBySessionIdFlush(r)
    \/ DeleteSessionsFind(r)
    \/ DeleteSessionsFlush(r)
    \/ Fail(r)

\* the account and session requests interleave at their awaits
AuthNext ==
    \/ \E r \in Procs : Register(r)
    \/ \E r \in Procs : Login(r)
    \/ \E r \in Procs : ValidateSession(r)
    \/ \E r \in Procs : Logout(r)
    \/ \E r \in Procs : AuthStep(r)
    \/ Elapse

AuthSpec == AuthStore /\ [][AuthNext]_vars

\* the account and session requests, one request at a time
AuthSeqNext ==
    \/ \E r \in Procs : NoneInFlight /\ Register(r)
    \/ \E r \in Procs : NoneInFlight /\ Login(r)
    \/ \E r \in Procs : NoneInFlight /\ ValidateSession(r)
    \/ \E r \in Procs : NoneInFlight /\ Logout(r)
    \/ \E r \in Procs : AuthStep(r)
    \/ Elapse

AuthSeqSpec == AuthStore /\ [][AuthSeqNext]_vars

\* ------------------------------------------------------------ claim helpers
\* the lines of the user's cart in given rows of cart and cart_item
CartLinesIn(cartRows, itemRows, u) ==
    {ci \in itemRows : FindCartIn(cartRows, u) # 0 /\ ci.cart = FindCartIn(cartRows, u)}
CartLines(u) == CartLinesIn(carts, cartItems, u)

RECURSIVE SumSubtotals(_)
SumSubtotals(lines) ==
    IF lines = {} THEN 0
    ELSE LET x == CHOOSE y \in lines : TRUE
         IN x.quantity * x.price + SumSubtotals(lines \ {x})

\* order o (in the given order_item rows) has exactly one line per cart line of
\* `lines`, with that line's product and quantity, and no other line
OrderMirrors(itemRows, o, lines) ==
    /\ \A ci \in lines :
          Cardinality({oi \in OrderLinesIn(itemRows, o) : oi.fromCartItem = ci.id}) = 1
    /\ \A oi \in OrderLinesIn(itemRows, o) :
          \E ci \in lines : /\ oi.fromCartItem = ci.id
                            /\ oi.product = ci.product
                            /\ oi.quantity = ci.quantity

\* ------------------------------------------------------------------ claims
\* C1 (under SeqSpec): when a createOrder with a selection S succeeds, the created
\* order has exactly one line per line of the user's cart whose id is in S, with its
\* product and quantity, and no other line; the cart is then left with exactly the
\* lines whose id is not in S, unchanged.
C1_SelectiveCheckout ==
    [][\A r \in Procs :
          (reqs[r].pc = "co_removeFlush" /\ reqs'[r].pc = "idle" /\ response'.result = "ok")
          => /\ OrderMirrors(orderItems', reqs[r].order,
                             {ci \in CartLines(reqs[r].user) : ci.id \in reqs[r].sel.ids})
             /\ CartLinesIn(carts', cartItems', reqs[r].user)
                    = {ci \in CartLines(reqs[r].user) : ci.id \notin reqs[r].sel.ids}]_vars

\* a selective checkout succeeded, ordered a line and left another one in the cart
C1_Witness ==
    /\ response.op = "createOrder" /\ response.selGiven /\ response.result = "ok"
    /\ \E o \in orders : o.user = response.user /\ OrderLines(o.id) # {}
    /\ CartLines(response.user) # {}
    /\ \A ci \in CartLines(response.user) : \A oi \in orderItems : oi.fromCartItem # ci.id

\* C2 (the claim as stated): createOrder is all-or-nothing; once no request is in
\* flight, no order line exists whose consumed cart line is still in the cart.
C2_AllOrNothing ==
    NoneInFlight => \A oi \in orderItems : \A ci \in cartItems : ci.id # oi.fromCartItem

\* C3: every persisted order's total is the sum of quantity x price over its own
\* lines, whatever happens to product prices meanwhile.
C3_TotalIsSumOfLines ==
    \A o \in orders : o.total = SumSubtotals(OrderLines(o.id))

\* an order was persisted by a createOrder still in flight, and a product price has
\* changed since that createOrder loaded the cart
C3_Witness ==
    \E r \in Procs :
        /\ reqs[r].op = "createOrder" /\ reqs[r].order # 0
        /\ \E oi \in OrderLines(reqs[r].order) : oi.price # price[oi.product]

\* C4 (under SeqSpec): when a createOrder without a selection succeeds, the order has
\* one line per line the cart had (same product and quantity), the cart is left with
\* no line, and the cart row is still there under the same id.
C4_FullCheckout ==
    [][\A r \in Procs :
          (/\ reqs[r].op = "createOrder" /\ reqs[r].pc = "clear_flush"
           /\ reqs'[r].pc = "idle" /\ response'.result = "ok")
          => /\ OrderMirrors(orderItems', reqs[r].order, CartLines(reqs[r].user))
             /\ CartLinesIn(carts', cartItems', reqs[r].user) = {}
             /\ carts' = carts
             /\ FindCartIn(carts', reqs[r].user) = FindCart(reqs[r].user)
             /\ FindCart(reqs[r].user) # 0]_vars

\* a full checkout succeeded; its order has a line, the cart row remains, without lines
C4_Witness ==
    /\ response.op = "createOrder" /\ ~response.selGiven /\ response.result = "ok"
    /\ \E o \in orders : o.user = response.user /\ OrderLines(o.id) # {}
    /\ FindCart(response.user) # 0
    /\ CartLines(response.user) = {}

\* C5: a createOrder started for a user without a cart, or with a cart without lines,
\* fails at once with CartIsEmpty, with or without a selection, and writes nothing.
C5_EmptyCart ==
    [][\A r \in Procs : \A u \in Users : \A sel \in Selections :
          (CreateOrderStart(r, u, sel) /\ CartLines(u) = {})
          => /\ reqs'[r].pc = "idle"
             /\ response'.op = "createOrder" /\ response'.result = "CartIsEmpty"
             /\ orders' = orders /\ orderItems' = orderItems
             /\ carts' = carts /\ cartItems' = cartItems]_vars

\* a createOrder with a selection was refused with CartIsEmpty for a user whose cart
\* exists and has no line
C5_Witness ==
    /\ response.op = "createOrder" /\ response.result = "CartIsEmpty"
    /\ response.selGiven
    /\ FindCart(response.user) # 0
    /\ CartLines(response.user) = {}
    /\ orders = {}

\* C6: a createOrder started on a cart with lines and a selection (the empty list
\* included) that names none of these lines fails at once with NoValidItemsSelected
\* and writes nothing.
C6_NoValidItems ==
    [][\A r \in Procs : \A u \in Users : \A sel \in Selections :
          (/\ CreateOrderStart(r, u, sel)
           /\ CartLines(u) # {}
           /\ sel.given
           /\ \A ci \in CartLines(u) : ci.id \notin sel.ids)
          => /\ reqs'[r].pc = "idle"
             /\ response'.op = "createOrder" /\ response'.result = "NoValidItemsSelected"
             /\ orders' = orders /\ orderItems' = orderItems
             /\ carts' = carts /\ cartItems' = cartItems]_vars

\* a createOrder with a selection was refused with NoValidItemsSelected while the
\* cart has a line, and nothing was ordered
C6_Witness ==
    /\ response.op = "createOrder" /\ response.result = "NoValidItemsSelected"
    /\ response.selGiven
    /\ CartLines(response.user) # {}
    /\ orders = {} /\ orderItems = {}

\* C7 (the claim as stated): a cart holds at most one line per product.
C7_UniqueCartProduct ==
    \A a \in cartItems : \A b \in cartItems :
        (a.cart = b.cart /\ a.product = b.product) => a = b

\* C8 (the claim as stated): at most one cart exists per user.
C8_OneCartPerUser ==
    \A a \in carts : \A b \in carts : a.user = b.user => a = b

\* C9 (under AddSpec): after any sequence of addToCart calls, the cart of each user
\* has, for each product added successfully, exactly one line, whose quantity is the
\* sum of the quantities added; and no line for any other product.
C9_AddAccumulates ==
    \A u \in Users : \A p \in Products :
        LET ls == {ci \in CartLines(u) : ci.product = p}
        IN IF added[u][p] = 0
           THEN ls = {}
           ELSE Cardinality(ls) = 1 /\ \A ci \in ls : ci.quantity = added[u][p]

\* two or more successful addToCart calls of one user for one product have completed
C9_Witness ==
    /\ NoneInFlight
    /\ \E u \in Users : \E p \in Products :
          /\ added[u][p] \notin Quantities
          /\ \E ci \in CartLines(u) : ci.product = p /\ ci.quantity = added[u][p]

\* C10: a change of a product's price changes no order as getOrderById and
\* getOrderHistory return it (line prices, subtotals and total).
C10_PriceChangeKeepsOrders ==
    [][price' # price =>
          \A u \in Users :
              /\ \A id \in 1..nextId.order : getOrderById(id, u)' = getOrderById(id, u)
              /\ Histories(u)' = Histories(u)
              /\ \A page \in Pages : \A pageSize \in PageSizes : \A all \in Histories(u) :
                    getOrderHistory(u, page, pageSize, all)'
                        = getOrderHistory(u, page, pageSize, all)]_vars

\* an order exists, no request is in flight, and the price of a product it holds is
\* no longer the price of its order line
C10_Witness ==
    /\ NoneInFlight
    /\ \E o \in orders : \E oi \in OrderLines(o.id) :
          /\ oi.price # price[oi.product]
          /\ getOrderById(o.id, o.user).order.total = oi.quantity * oi.price

\* C11 (under SeqSpec): getOrderById(id, user) answers with the order when an order
\* with that id is owned by user; otherwise it fails with OrderNotFound, and the
\* whole outcome (error kind, message, status) is the same whether the id is another
\* user's order or no order at all.
C11_OrderIsolation ==
    [][\A r \in Procs : \A u \in Users : \A id \in OrderIds :
          GetOrderByIdStart(r, u, id)
          => IF \E o \in orders : o.id = id /\ o.user = u
             THEN /\ response'.result = "ok"
                  /\ \E o \in orders : /\ o.id = id /\ o.user = u
                                        /\ response'.data = OrderView(o)
                  /\ response'.http.success
             ELSE response' = [op |-> "getOrderById", user |-> u, selGiven |-> FALSE,
                               result |-> "OrderNotFound", orderId |-> id,
                               query |-> <<>>, data |-> <<>>,
                               http |-> onError(AppErrors.OrderNotFound)]]_vars

\* a user asked for the id of an order another user owns, and got OrderNotFound
C11_Witness ==
    /\ response.op = "getOrderById" /\ response.result = "OrderNotFound"
    /\ \E o \in orders : o.id = response.orderId /\ o.user # response.user

\* the rows a user owns: carts, the lines of these carts, orders, their lines
RowsOf(u) ==
    <<{c \in carts : c.user = u},
      {ci \in cartItems : \E c \in carts : c.user = u /\ c.id = ci.cart},
      {o \in orders : o.user = u},
      {oi \in orderItems : \E o \in orders : o.user = u /\ o.id = oi.order}>>

\* C12 (under MutationSpec): the rows a user owns change only in a step of a request
\* of that user; a request of another user, whatever its selection names, leaves the
\* user's cart, cart lines, orders and order lines as they are.
C12_CrossUserFrame ==
    [][\A b \in Users :
          RowsOf(b)' # RowsOf(b)
          => \E r \in Procs : /\ reqs[r].pc # "idle" /\ reqs[r].user = b
                               /\ reqs'[r] # reqs[r]]_vars

\* a createOrder has persisted its order and is about to remove its working set,
\* its selection names a line of another user's cart, and that line is there
C12_Witness ==
    \E r \in Procs :
        /\ reqs[r].op = "createOrder" /\ reqs[r].pc = "co_removeFlush"
        /\ \E b \in Users \ {reqs[r].user} : \E ci \in CartLines(b) :
              ci.id \in reqs[r].sel.ids

\* C13 (the claim as stated, under AddSpec): addToCart is atomic; once no request is
\* in flight, no cart exists that addToCart created without the line it was adding.
C13_AddAtomic ==
    NoneInFlight => \A c \in carts : \E ci \in cartItems : ci.cart = c.id

\* C14 (the claim as stated): no step of a getCartWithItems request creates a cart.
C14_ViewCreatesNoCart ==
    [][\A r \in Procs :
          (reqs[r].op = "getCartWithItems" /\ reqs'[r] # reqs[r]) => carts' = carts]_vars

\* C15: addToCart with a product id that resolves to no product fails at once with
\* ProductNotFound; no cart is created and no cart line is created or changed.
C15_ProductNotFound ==
    [][\A r \in Procs : \A u \in Users : \A q \in Quantities :
          \A p \in ({0} \cup Products) \ Products :
              AddToCartStart(r, u, p, q)
              => /\ reqs'[r].pc = "idle"
                 /\ response'.op = "addToCart" /\ response'.result = "ProductNotFound"
                 /\ carts' = carts /\ cartItems' = cartItems /\ nextId' = nextId]_vars

\* an addToCart was refused with ProductNotFound and its user has no cart
C15_Witness ==
    /\ response.op = "addToCart" /\ response.result = "ProductNotFound"
    /\ FindCart(response.user) = 0
    /\ cartItems = {}

\* the user's cart has no line for the product
NoLineFor(u, p) == \A ci \in CartLines(u) : ci.product # p

\* C16 (under SeqSpec): updateCartItem fails with CartNotFound when the user has no
\* cart and with ItemNotFoundInTheCart when the cart has no line for the product,
\* and then changes nothing; otherwise it goes on to its flush, which sets the
\* quantity of that line to the quantity given and changes no other row.
C16_UpdateItem ==
    [][\A r \in Procs :
          /\ \A u \in Users : \A p \in Products : \A q \in Quantities :
                UpdateCartItemStart(r, u, p, q)
                => IF FindCart(u) = 0
                   THEN /\ response'.result = "CartNotFound" /\ reqs'[r].pc = "idle"
                        /\ carts' = carts /\ cartItems' = cartItems
                   ELSE reqs'[r].pc = "upd_findItem" /\ carts' = carts
                        /\ cartItems' = cartItems
          /\ UpdateFindItem(r)
                => IF NoLineFor(reqs[r].user, reqs[r].product)
                   THEN /\ response'.result = "ItemNotFoundInTheCart"
                        /\ reqs'[r].pc = "idle"
                        /\ carts' = carts /\ cartItems' = cartItems
                   ELSE reqs'[r].pc = "upd_flush"
          /\ UpdateFlush(r)
                => /\ response'.result = "ok"
                   /\ ~NoLineFor(reqs[r].user, reqs[r].product)
                   /\ carts' = carts
                   /\ cartItems' =
                          {IF ci \in CartLines(reqs[r].user) /\ ci.product = reqs[r].product
                           THEN [ci EXCEPT !.quantity = reqs[r].quantity]
                           ELSE ci : ci \in cartItems}]_vars

\* an updateCartItem succeeded on a line whose quantity is now another than the
\* quantity that was added to it
C16_Witness ==
    /\ response.op = "updateCartItem" /\ response.result = "ok"
    /\ NoneInFlight
    /\ \E ci \in CartLines(response.user) :
          /\ added[response.user][ci.product] # 0
          /\ ci.quantity < added[response.user][ci.product]

\* C17 (under SeqSpec): removeFromCart fails with CartNotFound when the user has no
\* cart and with ItemNotFoundInTheCart when the cart has no line for the product,
\* and then changes nothing; otherwise its flush deletes exactly that line and
\* leaves every other line and the cart row as they are.
C17_RemoveItem ==
    [][\A r \in Procs :
          /\ \A u \in Users : \A p \in Products :
                RemoveFromCartStart(r, u, p)
                => IF FindCart(u) = 0
                   THEN /\ response'.result = "CartNotFound" /\ reqs'[r].pc = "idle"
                        /\ carts' = carts /\ cartItems' = cartItems
                   ELSE reqs'[r].pc = "rem_findItem" /\ carts' = carts
                        /\ cartItems' = cartItems
          /\ RemoveFindItem(r)
                => IF NoLineFor(reqs[r].user, reqs[r].product)
                   THEN /\ response'.result = "ItemNotFoundInTheCart"
                        /\ reqs'[r].pc = "idle"
                        /\ carts' = carts /\ cartItems' = cartItems
                   ELSE reqs'[r].pc = "rem_flush"
          /\ RemoveFlush(r)
                => /\ response'.result = "ok"
                   /\ ~NoLineFor(reqs[r].user, reqs[r].product)
                   /\ carts' = carts
                   /\ cartItems' =
                          {ci \in cartItems :
                              ~(ci \in CartLines(reqs[r].user)
                                /\ ci.product = reqs[r].product)}]_vars

\* a removeFromCart succeeded and the cart still has a line, of another product
C17_Witness ==
    /\ response.op = "removeFromCart" /\ response.result = "ok"
    /\ NoneInFlight
    /\ CartLines(response.user) # {}
    /\ \E p \in Products :
          added[response.user][p] # 0 /\ NoLineFor(response.user, p)

\* C18 (under SeqSpec): clearCart for a user without a cart succeeds at once and
\* changes nothing; otherwise its flush deletes every line of the user's cart and
\* leaves the cart row, and every other cart's lines, as they are.
C18_ClearCart ==
    [][\A r \in Procs :
          /\ \A u \in Users :
                ClearCartStart(r, u)
                => /\ carts' = carts /\ cartItems' = cartItems /\ nextId' = nextId
                   /\ IF FindCart(u) = 0
                      THEN response'.result = "ok" /\ reqs'[r].pc = "idle"
                      ELSE reqs'[r].pc = "clear_flush"
          /\ (reqs[r].op = "clearCart" /\ ClearCartFlush(r))
                => /\ response'.result = "ok"
                   /\ carts' = carts
                   /\ FindCartIn(carts', reqs[r].user) = FindCart(reqs[r].user)
                   /\ cartItems' = cartItems \ CartLines(reqs[r].user)]_vars

\* a clearCart succeeded on a cart that had lines: the cart row is there, without
\* lines, after two products were added to it
C18_Witness ==
    /\ response.op = "clearCart" /\ response.result = "ok"
    /\ NoneInFlight
    /\ FindCart(response.user) # 0
    /\ CartLines(response.user) = {}
    /\ \A p \in Products : added[response.user][p] # 0

\* C19 (the claim as stated): a request that failed with an application error is
\* answered with the body {success: false, message} and with the status code of
\* its error kind.
C19_ErrorStatus ==
    response.result \in DOMAIN AppErrors
    => /\ ~response.http.success
       /\ response.http.message = <<AppErrors[response.result].message>>
       /\ response.http.status = AppErrors[response.result].statusCode

\* C20: every order is persisted with status pending, by a createOrder of the user
\* who owns it; and no step changes or deletes a persisted order (owner, total,
\* status) or its set of lines.
C20_OrdersImmutable ==
    [][/\ \A o \in orders :
             o \in orders' /\ OrderLinesIn(orderItems', o.id) = OrderLines(o.id)
       /\ \A o \in orders' \ orders :
             /\ o.status = PENDING
             /\ \E r \in Procs : /\ reqs[r].op = "createOrder" /\ reqs[r].pc = "co_flush"
                                  /\ reqs[r].user = o.user
                                  /\ reqs'[r].order = o.id]_vars

\* a second order was persisted by a later checkout, and the first is still there
C20_Witness ==
    /\ NoneInFlight
    /\ Cardinality(orders) >= 2
    /\ \A o \in orders : OrderLines(o.id) # {}

\* C21 (under HistorySpec): for every page and page size, getOrderHistory reports
\* the number of the user's orders as total and the least number of pages of that
\* size that hold them as totalPages; it returns the orders that stand at the
\* positions (page - 1) * pageSize + 1 .. page * pageSize of the user's list by
\* creation time, and none when the page is beyond the last.
C21_Pagination ==
    [][\A r \in Procs : \A u \in Users : \A page \in Pages : \A pageSize \in PageSizes :
          GetOrderHistoryStart(r, u, page, pageSize)
          => LET res == response'.data
                 own == {o \in orders : o.user = u}
                 total == Cardinality(own)
                 offset == (page - 1) * pageSize
                 n == Len(res.orders)
             IN /\ res.total = total
                /\ res.page = page
                /\ res.totalPages * pageSize >= total
                /\ (res.totalPages - 1) * pageSize < total
                /\ n = IF offset >= total THEN 0
                       ELSE IF total - offset < pageSize THEN total - offset
                       ELSE pageSize
                /\ \A i \in 1..n : \A j \in 1..n :
                       i # j => res.orders[i].id # res.orders[j].id
                /\ \A i \in 1..n : \E o \in own :
                       /\ res.orders[i].id = o.id
                       /\ Cardinality({x \in own : x.createdAt > o.createdAt})
                              <= offset + i - 1
                       /\ offset + i
                              <= Cardinality({x \in own : x.createdAt >= o.createdAt})]_vars

\* a user with two orders asked for the page after the last one, with page size
\* one, and got no order, total 2 and totalPages 2
C21_Witness ==
    /\ response.op = "getOrderHistory"
    /\ response.data.total = 2 /\ response.data.totalPages = 2
    /\ response.data.page = 3
    /\ Len(response.data.orders) = 0

\* C22 (the claim as stated, under HistorySpec, where checkouts run one after the
\* other and so ids follow the checkouts): getOrderHistory returns only orders of
\* its user, and an order of a later checkout always stands before an order of an
\* earlier checkout.
C22_NewestFirst ==
    [][\A r \in Procs : \A u \in Users : \A page \in Pages : \A pageSize \in PageSizes :
          GetOrderHistoryStart(r, u, page, pageSize)
          => LET L == response'.data.orders
             IN /\ \A i \in 1..Len(L) : \E o \in orders : o.id = L[i].id /\ o.user = u
                /\ \A i \in 1..Len(L) : \A j \in 1..Len(L) :
                       i < j => L[i].id > L[j].id]_vars

\* C23 (under TotalSpec): calculateOrderTotal of the lines of a cart is the sum of
\* quantity times product price over the lines: 0 without lines, and with lines
\* the total of the others plus quantity times price of any one of them, so that
\* a line of quantity 0 adds nothing.
C23_TotalOfLines ==
    (response.op = "calculateOrderTotal")
    => LET lines == getCartItems(response.user)
       IN /\ response.data = SumSubtotals(lines)
          /\ lines = {} => response.data = 0
          /\ \A x \in lines :
                response.data
                    = calculateOrderTotal(lines \ {x}) + x.quantity * price[x.product]
          /\ \A x \in lines :
                x.quantity = 0 => response.data = calculateOrderTotal(lines \ {x})

\* the total was computed of a cart with a line of quantity 0 and two other lines
\* of one product, and is not 0
C23_Witness ==
    /\ response.op = "calculateOrderTotal"
    /\ response.data # 0
    /\ \E x \in cartItems : x.quantity = 0
    /\ \E x \in cartItems : \E y \in cartItems :
          x # y /\ x.product = y.product /\ x.quantity > 0 /\ y.quantity > 0

\* the products of the catalog within the price bounds of a request
Matching(minPrice, maxPrice) ==
    {p \in 1..CatalogSize : /\ minPrice = <<>> \/ priceOfRow(p) >= minPrice[1]
                            /\ maxPrice = <<>> \/ priceOfRow(p) <= maxPrice[1]}

\* the answer res pages `total` products by pages of `size`
PagedBy(res, size, total) ==
    /\ Len(res.products) <= size
    /\ res.total = total
    /\ res.totalPages * size >= total
    /\ (res.totalPages - 1) * size < total

Deleted == {sid \in 1..(nextId.session - 1) : SessionRows(sid) = {}}

\* C25 (under AuthSpec): validateSession answers with the owning user exactly when
\* a session with the id exists and has not expired.  For an unknown id it throws
\* InvalidSessionError at once and changes no row.  For an expired session it goes
\* on to delete, and when it throws ExpiredSessionError no row with the id is left;
\* an id without a row never gets a row again, so every validateSession that starts
\* later finds none and throws InvalidSessionError.
C25_ValidateSession ==
    [][/\ \A r \in Procs : \A sid \in SessionIds :
              ValidateSessionStart(r, sid, "validateSession")
              => LET found == {x \in sessions : x.sessionId = sid}
                 IN /\ auth' = auth
                    /\ (found = {})
                       => /\ reqs'[r].pc = "idle"
                          /\ response'.result = "InvalidSession"
                          /\ response'.query.sessionId = sid
                    /\ \A x \in found :
                          IF x.expiresAt >= now
                          THEN /\ reqs'[r].pc = "idle"
                               /\ response'.result = "ok"
                               /\ response'.data \in users
                               /\ response'.data.id = x.user
                          ELSE reqs'[r].pc # "idle" /\ response' = response
       /\ \A r \in Procs :
              (/\ reqs[r].op = "validateSession"
               /\ reqs[r].pc # "idle"
               /\ reqs'[r].pc = "idle"
               /\ response'.result # "InternalError")
              => /\ response'.op = "validateSession"
                 /\ response'.result = "ExpiredSession"
                 /\ response'.query = reqs[r].query
                 /\ \A x \in sessions' : x.sessionId # reqs[r].query.sessionId
                 /\ \A x \in sessions :
                       x.sessionId # reqs[r].query.sessionId => x \in sessions'
                 /\ users' = users
       /\ Deleted \subseteq Deleted']_vars

\* a validateSession has thrown ExpiredSessionError, the session's row is gone and
\* the other sessions are still there
C25_Witness ==
    /\ response.op = "validateSession"
    /\ response.result = "ExpiredSession"
    /\ response.query.sessionId \in Deleted
    /\ Cardinality(sessions) = 2

\* C26 (under AuthSeqSpec, one request at a time): when logout deletes, the rows
\* left are exactly the sessions of the other users; from then on a validateSession
\* of any id whose row is gone throws InvalidSessionError, and a validateSession of
\* a session that is still held and has not expired answers with its owner.
C26_Logout ==
    [][/\ \A r \in Procs :
              DeleteSessionsFlush(r)
              => /\ sessions' = {x \in sessions : x.user # reqs[r].account}
                 /\ users' = users
                 /\ response'.op = "logout"
                 /\ response'.result = "ok"
                 /\ {x.sessionId : x \in {y \in sessions : y.user = reqs[r].account}}
                        \subseteq Deleted'
       /\ \A sid \in Deleted : \A x \in sessions' : x.sessionId # sid
       /\ \A r \in Procs : \A sid \in SessionIds :
              ValidateSessionStart(r, sid, "validateSession")
              => /\ (sid \in Deleted) => response'.result = "InvalidSession"
                 /\ \A x \in sessions :
                       (x.sessionId = sid /\ x.expiresAt >= now)
                       => /\ response'.result = "ok"
                          /\ response'.data.id = x.user]_vars

\* a logout has removed the two sessions of one user and left the session of the
\* other, whose owner is still registered
C26_Witness ==
    /\ response.op = "logout"
    /\ response.result = "ok"
    /\ {1, 2} \subseteq Deleted
    /\ \E x \in sessions : x.sessionId = 3 /\ x.user = 2

\* C27 (under AuthSpec): when the flush of a register meets a user row with the
\* same email, the register fails with EmailConflictError and neither a user row
\* nor a session row is added or removed; in every state no two user rows share an
\* email.
C27_RegisterConflict ==
    [][/\ \A r \in Procs :
              (RegisterFlush(r) /\ \E u \in users : u.email = reqs[r].query.email)
              => /\ response'.op = "register"
                 /\ response'.result = "EmailConflict"
                 /\ users' = users
                 /\ sessions' = sessions
       /\ \A r \in Procs : \A email \in Emails :
              (RegisterStart(r, email) /\ \E u \in users : u.email = email)
              => /\ reqs'[r].pc = "registerFlush"
                 /\ reqs'[r].query.email = email
                 /\ auth' = auth
       /\ \A x \in users' : \A y \in users' : x.email = y.email => x = y]_vars

\* two registers of a new email ran together: one made the user, the other failed
\* with EmailConflictError
C27_Witness ==
    /\ response.op = "register"
    /\ response.result = "EmailConflict"
    /\ response.query.email = "c"
    /\ Cardinality({u \in users : u.email = "c"}) = 1
    /\ Cardinality(users) = 3
    /\ Cardinality(sessions) = 4

\* C28 (the claim as stated): no cart line is the source of order lines in two
\* orders.
C28_ConsumedOnce ==
    \A a \in orderItems : \A b \in orderItems :
        a.fromCartItem = b.fromCartItem => a.order = b.order

\* C29 (the claim as stated): every cart line that a step of a createOrder removes
\* is the source of a line of the order it created, with the quantity the cart line
\* has when it is removed.
C29_RemovesOnlyOrdered ==
    [][\A r \in Procs :
          (reqs[r].op = "createOrder" /\ reqs'[r] # reqs[r])
          => \A ci \in cartItems \ cartItems' :
                \E oi \in OrderLines(reqs[r].order) :
                    /\ oi.fromCartItem = ci.id
                    /\ oi.product = ci.product
                    /\ oi.quantity = ci.quantity]_vars

\* C30 (the claim as stated, under AddRaceSpec): once no addToCart is in flight,
\* the quantity the user's carts hold of each product is the sum of the quantities
\* added.
C30_NoLostUpdate ==
    NoneInFlight
    => \A u \in Users : \A p \in Products :
          SumQuantities({ci \in cartItems :
                            /\ ci.product = p
                            /\ \E c \in carts : c.id = ci.cart /\ c.user = u})
              = added[u][p]

====
